---- MODULE Spec2Model ----
(***************************************************************************)
(* Model of the race simulation engine, src/src/simulation.py              *)
(* (class SimulationEngine): calculate_driver_strength, _simulate_stage,   *)
(* _simulate_single_race and run_monte_carlo.                              *)
(*                                                                         *)
(* Floats are modelled in fixed point: a strength or a score is an integer *)
(* number of 1/Scale units, a probability an integer number of 1/ProbScale *)
(* units.  Python dicts are modelled as insertion-ordered maps.            *)
(***************************************************************************)
EXTENDS Integers, Sequences, FiniteSets, TLC

VARIABLES
    drivers,          \* run_monte_carlo argument: list of competitor ids
    year,             \* run_monte_carlo argument
    track_type,       \* run_monte_carlo argument
    num_simulations,  \* run_monte_carlo argument
    stats,            \* the external lookup sport.get_entity_stats: id -> year -> record
    pc,               \* position of run_monte_carlo
    k,                \* index of the next entry of drivers to rate (loop of line 131)
    strengths,        \* dict driver -> strength (line 130)
    lookups,          \* per call of calculate_driver_strength, the years it looked up
    results,          \* dict driver -> list of finishes (line 134)
    sim,              \* number of completed iterations of the loop of line 136
    step,             \* position inside _simulate_single_race (0 = not in a race)
    current_order,    \* local lineup of _simulate_single_race
    outcome,          \* "running", "returned" or the exception raised
    aggregated,       \* the "results" list returned to the caller
    trace,            \* the reorderings executed by the race in progress (or the last one)
    rng,              \* numpy's process-wide generator: variates drawn from it so far
    previous,         \* outcome of the previous invocation with these arguments, if any
    metadata,         \* the "metadata" dict returned to the caller
    last_scores,      \* scores / pit_order_scores of the reordering just executed
    last_noise,       \* the variates drawn for it, by position of the lineup
    sport,            \* path parameter of the simulate request
    status            \* HTTP status of the response (0 = none yet)

vars == <<drivers, year, track_type, num_simulations, stats, pc, k, strengths,
          lookups, results, sim, step, current_order, outcome, aggregated,
          trace, rng, previous, metadata, last_scores, last_noise, sport, status>>

----------------------------------------------------------------------------
(* Bounds of the model *)

MaxDrivers == 3          \* longest competitor list
MaxSims == 2             \* largest num_simulations
MaxShortHistory == 2     \* histories of every length up to this one are enumerated
TargetYear == 2024       \* the year the request is for

Drivers == {"A", "B", "C"}
Years == {TargetYear - 2, TargetYear - 1, TargetYear}

----------------------------------------------------------------------------
(* Fixed point and Python containers *)

Scale == 10000           \* one strength / score unit is 1/Scale
ProbScale == 1000000     \* one probability unit is 1/ProbScale
NA == -1                 \* the 'N/A' marker of a history row
NaN == -1000000000       \* float('nan'): a value pandas leaves where an average is undefined

Max(a, b) == IF a >= b THEN a ELSE b
Min(a, b) == IF a <= b THEN a ELSE b

EmptyDict == <<>>
Truthy(d) == DOMAIN d # {}
Get(d, key, default) == IF key \in DOMAIN d THEN d[key] ELSE default

\* insertion-ordered dict: keys in insertion order, val the mapping
NewDict == [keys |-> <<>>, val |-> EmptyDict]
DictSet(d, key, v) ==
    [keys |-> IF key \in DOMAIN d.val THEN d.keys ELSE Append(d.keys, key),
     val  |-> (key :> v) @@ d.val]
DictGet(d, key, default) == Get(d.val, key, default)

None == [some |-> FALSE]
Some(d) == [some |-> TRUE, val |-> d]

RECURSIVE SumSeq(_)
SumSeq(s) == IF s = <<>> THEN 0 ELSE Head(s) + SumSeq(Tail(s))

RECURSIVE SelectFinishes(_)
\* [float(r['Finish']) for r in rows if r['Finish'] != 'N/A']
SelectFinishes(rows) ==
    IF rows = <<>> THEN <<>>
    ELSE IF Head(rows)["Finish"] # NA
         THEN <<Head(rows)["Finish"]>> \o SelectFinishes(Tail(rows))
         ELSE SelectFinishes(Tail(rows))

----------------------------------------------------------------------------
(* calculate_driver_strength, lines 11-70 *)

FieldBaseline == 20      \* the 20.0 of 20.0 / max(avg, 1.0) and the default averages
RecentWindow == 5        \* history[:5]
FloorStrength == Scale \div 2      \* return 0.5

\* 20.0 / max(total / count, 1.0), in 1/Scale units
\* max(nan, 1.0) is nan (no comparison with nan is true), and so is 20.0 / nan
FieldRatio(total, count) ==
    IF total = NaN THEN NaN ELSE (FieldBaseline * Scale * count) \div Max(total, count)

\* sum(): nan as soon as one term is
Total(s) == IF \E i \in 1..Len(s) : s[i] = NaN THEN NaN ELSE SumSeq(s)

get_entity_stats(st, driver_id, y) ==
    IF driver_id \in DOMAIN st /\ y \in DOMAIN st[driver_id] THEN st[driver_id][y] ELSE None

\* condition of line 20
MissingFirst(sd) ==
    \/ ~sd.some
    \/ ~Truthy(sd.val)
    \/ ~Truthy(Get(sd.val, "stats", EmptyDict))
    \/ Get(sd.val["stats"], "Races", 0) = 0

\* condition of line 23
MissingSecond(sd) ==
    \/ ~sd.some
    \/ ~Truthy(sd.val)
    \/ "stats" \notin DOMAIN sd.val
    \/ Get(sd.val["stats"], "Races", 0) = 0

base_strength(rec) == FieldRatio(Get(rec["stats"], "Avg Finish", FieldBaseline), 1)

\* averages the whole history instead of its first rows
recency_strength_whole_history(rec) ==
    LET history == Get(rec, "history", <<>>)
        recent_finishes == SelectFinishes(history)
    IN  IF history # <<>> /\ recent_finishes # <<>>
        THEN FieldRatio(Total(recent_finishes), Len(recent_finishes))
        ELSE base_strength(rec)

recency_strength(rec) ==
    LET history == Get(rec, "history", <<>>)
        recent_finishes == SelectFinishes(SubSeq(history, 1, Min(RecentWindow, Len(history))))
    IN  IF history # <<>> /\ recent_finishes # <<>>
        THEN FieldRatio(Total(recent_finishes), Len(recent_finishes))
        ELSE base_strength(rec)

GeneralizedTypes == {"Intermediate", "Short Track", "Superspeedway", "Flat", "Concrete"}

\* falls back to 'paved' for every track type the record has no split for
lookup_type_paved_for_all(splits, tt) ==
    IF tt = "Road Course" THEN "road"
    ELSE IF tt \notin DOMAIN splits /\ "paved" \in DOMAIN splits
         THEN "paved"
         ELSE tt

\* generalizes to 'paved' even when the record has the specific split
lookup_type_paved_first(splits, tt) ==
    IF tt = "Road Course" THEN "road"
    ELSE IF tt \in GeneralizedTypes /\ "paved" \in DOMAIN splits
         THEN "paved"
         ELSE tt

lookup_type(splits, tt) ==
    IF tt = "Road Course" THEN "road"
    ELSE IF tt \in GeneralizedTypes /\ tt \notin DOMAIN splits /\ "paved" \in DOMAIN splits
         THEN "paved"
         ELSE tt

track_strength(rec, tt) ==
    LET splits == Get(rec, "splits", EmptyDict)
        lt == lookup_type(splits, tt)
        avg_finish == Get(rec["stats"], "Avg Finish", FieldBaseline)
    IN  IF lt \in DOMAIN splits
        THEN FieldRatio(Get(splits[lt], "Avg Finish", avg_finish), 1)
        ELSE base_strength(rec)

\* 1.0 + (20.0 - avg_start) * 0.005, in thousandths
qualifying_factor(rec) ==
    LET avg_start == Get(rec["stats"], "Avg Start", FieldBaseline)
    IN  IF avg_start = NaN THEN NaN ELSE 1000 + (FieldBaseline - avg_start) * 5

combined_strength(rec, tt) ==
    IF NaN \in {base_strength(rec), recency_strength(rec), track_strength(rec, tt)}
    THEN NaN
    ELSE (4 * base_strength(rec) + 3 * recency_strength(rec) + 3 * track_strength(rec, tt)) \div 10

final_strength(rec, tt) ==
    IF NaN \in {combined_strength(rec, tt), qualifying_factor(rec)}
    THEN NaN
    ELSE (combined_strength(rec, tt) * qualifying_factor(rec)) \div 1000

\* keeps going back one more year when the year before has nothing either
LookupYearsKeepsSearching(st, driver_id, y) ==
    IF MissingFirst(get_entity_stats(st, driver_id, y))
    THEN IF MissingSecond(get_entity_stats(st, driver_id, y - 1))
         THEN <<y, y - 1, y - 2>>
         ELSE <<y, y - 1>>
    ELSE <<y>>

\* the years looked up by one call, in order
LookupYears(st, driver_id, y) ==
    IF MissingFirst(get_entity_stats(st, driver_id, y)) THEN <<y, y - 1>> ELSE <<y>>

\* the record the call settles on (after line 21)
stats_data(st, driver_id, y) ==
    LET yrs == LookupYears(st, driver_id, y)
    IN  get_entity_stats(st, driver_id, yrs[Len(yrs)])

calculate_driver_strength(st, driver_id, y, tt) ==
    LET sd == stats_data(st, driver_id, y)
    IN  IF MissingSecond(sd) THEN FloorStrength ELSE final_strength(sd.val, tt)

----------------------------------------------------------------------------
(* The records the lookup may return *)

OptDicts(key, vals) == {EmptyDict} \cup {key :> v : v \in vals}

StatsDicts ==
    {a @@ b @@ c : a \in {"Races" :> 5},
                   b \in OptDicts("Avg Finish", {0, 10}),
                   c \in OptDicts("Avg Start", {5, 220, 300})}

SplitKeys == {"Intermediate", "paved", "road", "Road Course", "Dirt"}
SplitAvg == [Intermediate |-> 2, paved |-> 4, road |-> 8, Dirt |-> 25] @@ ("Road Course" :> 16)
SplitDicts ==
    {[key \in ks |-> IF key = "Dirt" THEN EmptyDict ELSE ("Avg Finish" :> SplitAvg[key])] :
        ks \in SUBSET SplitKeys}

HistoryFinishes == {NA, 2, 40}
Row(f) == "Finish" :> f
Histories ==
    UNION {[1..n -> {Row(f) : f \in HistoryFinishes}] : n \in 0..MaxShortHistory}
    \cup {[i \in 1..(RecentWindow + 1) |-> IF i <= RecentWindow THEN Row(f) ELSE Row(g)] :
            f \in HistoryFinishes, g \in HistoryFinishes}

RichRecords ==
    {Some([stats |-> s, splits |-> sp, history |-> h]) :
        s \in StatsDicts, sp \in SplitDicts, h \in Histories}

\* records that count as "no statistics"
AbsentRecords ==
    {None, Some(EmptyDict), Some([stats |-> EmptyDict, splits |-> EmptyDict, history |-> <<>>]),
     Some([stats |-> ("Races" :> 0) @@ ("Avg Finish" :> 3), splits |-> EmptyDict, history |-> <<>>]),
     Some([stats |-> ("Avg Finish" :> 3)])}

\* a usable record with only season totals
PlainRecord(avg_finish) ==
    Some([stats |-> ("Races" :> 5) @@ ("Avg Finish" :> avg_finish) @@ ("Avg Start" :> 10)])

----------------------------------------------------------------------------
(* run_monte_carlo, lines 129-132: one call of calculate_driver_strength *)

\* leaves a competitor without statistics out of the strength lookup
CalcStrengthSkipsUnknown ==
    /\ pc = "strengths"
    /\ k <= Len(drivers)
    /\ LET driver == drivers[k] IN
         /\ strengths' = IF MissingSecond(stats_data(stats, driver, year))
                         THEN strengths
                         ELSE DictSet(strengths, driver,
                                      calculate_driver_strength(stats, driver, year, track_type))
         /\ lookups' = Append(lookups, LookupYears(stats, driver, year))
    /\ k' = k + 1
    /\ UNCHANGED <<trace, rng, previous, sport, status, last_scores, last_noise, metadata, drivers, year, track_type, num_simulations, stats, pc, results, sim,
                   step, current_order, outcome, aggregated>>

\* rates a competitor with a random form factor drawn from the generator
CalcStrengthJittered ==
    /\ pc = "strengths"
    /\ k <= Len(drivers)
    /\ LET driver == drivers[k] IN
         /\ \E jitter \in {0, 1} :
              strengths' = DictSet(strengths, driver,
                                   calculate_driver_strength(stats, driver, year, track_type) + jitter)
         /\ lookups' = Append(lookups, LookupYears(stats, driver, year))
    /\ k' = k + 1
    /\ rng' = rng + 1
    /\ UNCHANGED <<trace, previous, sport, status, last_scores, last_noise, metadata, drivers, year, track_type, num_simulations, stats, pc, results,
                   sim, step, current_order, outcome, aggregated>>

CalcStrength ==
    /\ pc = "strengths"
    /\ k <= Len(drivers)
    /\ LET driver == drivers[k] IN
         /\ strengths' = DictSet(strengths, driver,
                                 calculate_driver_strength(stats, driver, year, track_type))
         /\ lookups' = Append(lookups, LookupYears(stats, driver, year))
    /\ k' = k + 1
    /\ UNCHANGED <<trace, rng, previous, sport, status, last_scores, last_noise, metadata, drivers, year, track_type, num_simulations, stats, pc, results, sim,
                   step, current_order, outcome, aggregated>>

TrackTypes == {"Intermediate", "Road Course", "Dirt", "Short Track"}

\* nothing returned yet
NoMetadata == [driver_count |-> -1]

Fresh ==
    /\ pc = "strengths"
    /\ k = 1
    /\ strengths = NewDict
    /\ lookups = <<>>
    /\ results = NewDict
    /\ sim = 0
    /\ step = 0
    /\ current_order = <<>>
    /\ outcome = "running"
    /\ aggregated = <<>>
    /\ trace = <<>>
    /\ metadata = NoMetadata
    /\ last_scores = NewDict
    /\ last_noise = <<>>

\* the process has drawn nothing yet and the request is the first of its kind
NoPrevious == [called |-> FALSE]
FreshProcess ==
    /\ rng = 0
    /\ previous = NoPrevious

\* run_monte_carlo called for a NASCAR request, no response sent yet
NoStatus == 0
DirectCall ==
    /\ sport = "nascar"
    /\ status = NoStatus

\* one competitor, any record: the calls of calculate_driver_strength on their own
InitStrength ==
    /\ drivers = <<"A">>
    /\ year = TargetYear
    /\ track_type \in TrackTypes
    /\ num_simulations = 1
    /\ \E now \in RichRecords \cup AbsentRecords, prev \in AbsentRecords \cup {PlainRecord(40)} :
         stats = [d \in {"A"} |->
                    [y \in Years |-> IF y = TargetYear THEN now
                                     ELSE IF y = TargetYear - 1 THEN prev
                                     ELSE PlainRecord(1)]]
    /\ Fresh
    /\ FreshProcess
    /\ DirectCall

NextStrength == CalcStrength

SpecStrength == InitStrength /\ [][NextStrength]_vars

----------------------------------------------------------------------------
(* sorted(..., key=..., reverse=True) and list.sort(key=..., reverse=True):  *)
(* descending by key, items with equal keys keep their relative order        *)

Front(s) == SubSeq(s, 1, Len(s) - 1)
Last(s) == s[Len(s)]

\* x goes ahead of the indices with an equal key
InsertDescAheadOfEqual(idx, x, keyv) ==
    LET n == Cardinality({i \in 1..Len(idx) : keyv[idx[i]] > keyv[x]})
    IN  SubSeq(idx, 1, n) \o <<x>> \o SubSeq(idx, n + 1, Len(idx))

\* idx is sorted; x goes behind every index whose key is not smaller
InsertDesc(idx, x, keyv) ==
    LET n == Cardinality({i \in 1..Len(idx) : keyv[idx[i]] >= keyv[x]})
    IN  SubSeq(idx, 1, n) \o <<x>> \o SubSeq(idx, n + 1, Len(idx))

RECURSIVE SortIdx(_, _)
SortIdx(m, keyv) == IF m = 0 THEN <<>> ELSE InsertDesc(SortIdx(m - 1, keyv), m, keyv)

sorted_reverse(items, keyv) ==
    LET idx == SortIdx(Len(items), keyv)
    IN  [i \in 1..Len(items) |-> items[idx[i]]]

RECURSIVE ZipDict(_, _)
\* {key: value for ...}: later entries overwrite earlier ones with the same key
ZipDict(ks, vs) ==
    IF ks = <<>> THEN NewDict
    ELSE DictSet(ZipDict(Front(ks), Front(vs)), Last(ks), Last(vs))

KeyValues(d) == [i \in 1..Len(d.keys) |-> d.val[d.keys[i]]]

----------------------------------------------------------------------------
(* _simulate_stage, lines 72-91 *)

PosBonusUnit == Scale \div 100     \* 0.01

\* standard Gumbel draws, in 1/1000; a draw is scaled by the variance
GumbelDraws == {0, 20, 6000}

\* a ranking that keys the competitors by their score: of the competitors
\* with one score, only the last survives
_simulate_stage_keyed_by_score(order, str, variance10, noise) ==
    LET n == Len(order)
        sc == [i \in 1..n |-> DictGet(str, order[i], FloorStrength)
                              + (n - (i - 1)) * PosBonusUnit
                              + variance10 * noise[i]]
        kept == {order[i] : i \in {j \in 1..n : \A l \in (j + 1)..n : sc[l] # sc[j]}}
        IsKept(d) == d \in kept
    IN  SelectSeq(sorted_reverse(order, sc), IsKept)

\* a bonus that grows towards the back of the lineup
stage_scores_bonus_to_the_back(order, str, variance10, noise) ==
    LET n == Len(order)
        sc == [i \in 1..n |-> DictGet(str, order[i], FloorStrength)
                              + i * PosBonusUnit
                              + variance10 * noise[i]]
    IN  ZipDict(order, sc)

\* lines 76-88: the scores dict
\* variance10: the variance argument in tenths; noise[i]: the draw of position i
stage_scores(order, str, variance10, noise) ==
    LET n == Len(order)
        sc == [i \in 1..n |-> DictGet(str, order[i], FloorStrength)
                              + (n - (i - 1)) * PosBonusUnit
                              + variance10 * noise[i]]
    IN  ZipDict(order, sc)

_simulate_stage(order, str, variance10, noise) ==
    LET scores == stage_scores(order, str, variance10, noise)
    IN  sorted_reverse(scores.keys, KeyValues(scores))

----------------------------------------------------------------------------
(* _simulate_single_race, lines 93-123 *)

\* normal(0, 2) draws, in positions
PitDraws == {-2, 0, 1}
PitSigma10 == 20         \* the standard deviation 2, in tenths

\* lines 110, 118
pit_order_scores(order, pit_noise) ==
    ZipDict(order, [i \in 1..Len(order) |-> (-(i - 1)) + pit_noise[i]])

pit_stops(order, pit_noise) ==
    LET sc == pit_order_scores(order, pit_noise)
    IN  sorted_reverse(sc.keys, KeyValues(sc))

\* the six reorderings of a race: stage (variance in tenths) or pit
StageVariance == <<10, 6, 0, 6, 0, 5>>
\* a race with one pit cycle only
IsPitOnce(s) == s = 3
IsPit(s) == s \in {3, 5}
LastStep == Len(StageVariance)

----------------------------------------------------------------------------
(* run_monte_carlo, lines 125-167 *)

\* np.mean(finishes_array == v) and np.mean(finishes_array <= v) count the matches
CountEq(s, v) == Cardinality({i \in 1..Len(s) : s[i] = v})
CountLE(s, v) == Cardinality({i \in 1..Len(s) : s[i] <= v})
SeqMin(s) == CHOOSE x \in {s[i] : i \in 1..Len(s)} : \A i \in 1..Len(s) : x <= s[i]
SeqMax(s) == CHOOSE x \in {s[i] : i \in 1..Len(s)} : \A i \in 1..Len(s) : x >= s[i]

\* counts a win where the 0-based index, not the 1-based finish, is the leader's
AggWinAtZero(driver, finishes) ==
    LET n == Len(finishes)
    IN  [driver |-> driver,
         avg_finish |-> (SumSeq(finishes) * Scale) \div n,
         win_prob |-> (CountEq(finishes, 0) * ProbScale) \div n,
         top_5_prob |-> (CountLE(finishes, 5) * ProbScale) \div n,
         top_10_prob |-> (CountLE(finishes, 10) * ProbScale) \div n,
         best_finish |-> SeqMin(finishes),
         worst_finish |-> SeqMax(finishes)]

\* takes the first recorded finish for the best one
AggBestIsFirst(driver, finishes) ==
    LET n == Len(finishes)
    IN  [driver |-> driver,
         avg_finish |-> (SumSeq(finishes) * Scale) \div n,
         win_prob |-> (CountEq(finishes, 1) * ProbScale) \div n,
         top_5_prob |-> (CountLE(finishes, 5) * ProbScale) \div n,
         top_10_prob |-> (CountLE(finishes, 10) * ProbScale) \div n,
         best_finish |-> finishes[1],
         worst_finish |-> SeqMax(finishes)]

Agg(driver, finishes) ==
    LET n == Len(finishes)
    IN  [driver |-> driver,
         avg_finish |-> (SumSeq(finishes) * Scale) \div n,
         win_prob |-> (CountEq(finishes, 1) * ProbScale) \div n,
         top_5_prob |-> (CountLE(finishes, 5) * ProbScale) \div n,
         top_10_prob |-> (CountLE(finishes, 10) * ProbScale) \div n,
         best_finish |-> SeqMin(finishes),
         worst_finish |-> SeqMax(finishes)]

Reverse(s) == [i \in 1..Len(s) |-> s[Len(s) + 1 - i]]

\* sorts ascending and reverses: equal win probabilities come out in reverse order
AggregateTiesReversed(res) ==
    LET rows == Reverse([i \in 1..Len(res.keys) |-> Agg(res.keys[i], res.val[res.keys[i]])])
    IN  sorted_reverse(rows, [i \in 1..Len(rows) |-> rows[i].win_prob])

\* lines 142-157
Aggregate(res) ==
    LET rows == [i \in 1..Len(res.keys) |-> Agg(res.keys[i], res.val[res.keys[i]])]
    IN  sorted_reverse(rows, [i \in 1..Len(rows) |-> rows[i].win_prob])

\* a loop that stops one run short
RunsLeftOneShort(done, n) == done < n - 1

\* for _ in range(num_simulations)
RunsLeft(done, n) == done < n

\* line 134
StartLoop ==
    /\ pc = "strengths"
    /\ k > Len(drivers)
    /\ results' = ZipDict(drivers, [i \in 1..Len(drivers) |-> <<>>])
    /\ pc' = "loop"
    /\ UNCHANGED <<trace, rng, previous, sport, status, last_scores, last_noise, metadata, drivers, year, track_type, num_simulations, stats, k, strengths,
                   lookups, sim, step, current_order, outcome, aggregated>>

RECURSIVE AllLookupYears(_, _, _)
AllLookupYears(list, st, y) ==
    IF list = <<>> THEN <<>>
    ELSE <<LookupYears(st, Head(list), y)>> \o AllLookupYears(Tail(list), st, y)

\* rates the competitors again at the start of every run
StartRaceRecomputes ==
    /\ pc = "loop"
    /\ RunsLeft(sim, num_simulations)
    /\ pc' = "race"
    /\ step' = 1
    /\ current_order' = strengths.keys
    /\ trace' = <<>>
    /\ lookups' = lookups \o AllLookupYears(drivers, stats, year)
    /\ UNCHANGED <<rng, previous, sport, status, last_scores, last_noise, metadata, drivers, year, track_type, num_simulations, stats, k, strengths,
                   results, sim, outcome, aggregated>>

\* lines 137, 97: drivers = list(strengths.keys())
StartRace ==
    /\ pc = "loop"
    /\ RunsLeft(sim, num_simulations)
    /\ pc' = "race"
    /\ step' = 1
    /\ current_order' = strengths.keys
    /\ trace' = <<>>
    /\ UNCHANGED <<rng, previous, sport, status, last_scores, last_noise, metadata, drivers, year, track_type, num_simulations, stats, k, strengths,
                   lookups, results, sim, outcome, aggregated>>

\* a nan strength makes the score nan, and sorted() on keys that do not
\* compare is left unspecified: any order of the lineup may come out
HasNaNScore(order, str) == \E i \in 1..Len(order) : DictGet(str, order[i], FloorStrength) = NaN
Orderings(order) ==
    {[j \in 1..Len(order) |-> order[p[j]]] : p \in Permutations(1..Len(order))}

\* a stage that wears down the rating of the competitor it puts in front
StageTiresLeader ==
    /\ pc = "race"
    /\ step <= LastStep
    /\ ~IsPit(step)
    /\ \E draws \in [1..Len(current_order) -> GumbelDraws] :
         current_order' = _simulate_stage(current_order, strengths, StageVariance[step], draws)
    /\ strengths' = IF current_order' = <<>> THEN strengths
                    ELSE DictSet(strengths, current_order'[1],
                                 strengths.val[current_order'[1]] - PosBonusUnit)
    /\ step' = step + 1
    /\ trace' = Append(trace, <<"stage", StageVariance[step]>>)
    /\ rng' = rng + Len(current_order)
    /\ UNCHANGED <<previous, sport, status, last_scores, last_noise, metadata, drivers, year,
                   track_type, num_simulations, stats, pc, k, lookups, results, sim, outcome,
                   aggregated>>

\* lines 101, 104, 113, 121
Stage ==
    /\ pc = "race"
    /\ step <= LastStep
    /\ ~IsPit(step)
    /\ \E noise \in [1..Len(current_order) -> GumbelDraws] :
         IF HasNaNScore(current_order, strengths)
         THEN current_order' \in Orderings(current_order)
         ELSE current_order' = _simulate_stage(current_order, strengths, StageVariance[step], noise)
    /\ step' = step + 1
    /\ trace' = Append(trace, <<"stage", StageVariance[step]>>)
    /\ rng' = rng + Len(current_order)
    /\ UNCHANGED <<previous, sport, status, last_scores, last_noise, metadata, drivers, year, track_type, num_simulations, stats, pc, k, strengths,
                   lookups, results, sim, outcome, aggregated>>

\* lines 109-111, 117-119
PitStops ==
    /\ pc = "race"
    /\ step <= LastStep
    /\ IsPit(step)
    /\ \E pit_noise \in [1..Len(strengths.keys) -> PitDraws] :
         current_order' = pit_stops(current_order, pit_noise)
    /\ step' = step + 1
    /\ trace' = Append(trace, <<"pit", PitSigma10>>)
    /\ rng' = rng + Len(strengths.keys)
    /\ UNCHANGED <<previous, sport, status, last_scores, last_noise, metadata, drivers, year, track_type, num_simulations, stats, pc, k, strengths,
                   lookups, results, sim, outcome, aggregated>>

RECURSIVE RecordFinishesZeroBased(_, _, _)
\* records the index of enumerate() instead of index + 1
RecordFinishesZeroBased(res, finishing_order, pos) ==
    IF pos = 0 THEN res
    ELSE LET before == RecordFinishesZeroBased(res, finishing_order, pos - 1)
             driver == finishing_order[pos]
         IN  DictSet(before, driver, Append(before.val[driver], pos - 1))

RECURSIVE RecordFinishesLastOnly(_, _, _)
\* keeps the finish of the latest run only
RecordFinishesLastOnly(res, finishing_order, pos) ==
    IF pos = 0 THEN res
    ELSE LET before == RecordFinishesLastOnly(res, finishing_order, pos - 1)
             driver == finishing_order[pos]
         IN  DictSet(before, driver, <<pos>>)

RECURSIVE RecordFinishes(_, _, _)
\* lines 138-139
RecordFinishes(res, finishing_order, pos) ==
    IF pos = 0 THEN res
    ELSE LET before == RecordFinishes(res, finishing_order, pos - 1)
             driver == finishing_order[pos]
         IN  DictSet(before, driver, Append(before.val[driver], pos))

Record ==
    /\ pc = "race"
    /\ step > LastStep
    /\ results' = RecordFinishes(results, current_order, Len(current_order))
    /\ sim' = sim + 1
    /\ pc' = "loop"
    /\ step' = 0
    /\ current_order' = <<>>
    /\ UNCHANGED <<trace, rng, previous, sport, status, last_scores, last_noise, metadata, drivers, year, track_type, num_simulations, stats, k, strengths,
                   lookups, outcome, aggregated>>

\* also fails when there is no competitor at all
EmptyTallyOrNoCompetitor(res) ==
    \/ res.keys = <<>>
    \/ \E i \in 1..Len(res.keys) : res.val[res.keys[i]] = <<>>

\* np.min / np.max of an empty array raise ValueError (lines 151-152)
EmptyTally(res) == \E i \in 1..Len(res.keys) : res.val[res.keys[i]] = <<>>

\* lines 141-167
Return ==
    /\ pc = "loop"
    /\ ~RunsLeft(sim, num_simulations)
    /\ ~EmptyTally(results)
    /\ aggregated' = Aggregate(results)
    /\ metadata' = [year |-> year, track_type |-> track_type,
                    simulations |-> num_simulations, driver_count |-> Len(drivers)]
    /\ outcome' = "returned"
    /\ pc' = "done"
    /\ UNCHANGED <<trace, rng, previous, sport, status, last_scores, last_noise, drivers, year, track_type, num_simulations, stats, k, strengths,
                   lookups, results, sim, step, current_order>>

Raise ==
    /\ pc = "loop"
    /\ ~RunsLeft(sim, num_simulations)
    /\ EmptyTally(results)
    /\ outcome' = "ValueError"
    /\ pc' = "done"
    /\ UNCHANGED <<trace, rng, previous, sport, status, last_scores, last_noise, metadata, drivers, year, track_type, num_simulations, stats, k, strengths,
                   lookups, results, sim, step, current_order, aggregated>>

----------------------------------------------------------------------------
(* A request *)

DriverLists == UNION {[1..n -> Drivers] : n \in 0..MaxDrivers}
RequestTrackTypes == {"Intermediate", "Dirt"}

\* what the lookup holds for one competitor: a season record for the year
\* asked, a record two years back only, or a record for the year before only
SeasonProfile ==
    [y \in Years |-> IF y = TargetYear
                     THEN Some([stats |-> ("Races" :> 5) @@ ("Avg Finish" :> 10) @@ ("Avg Start" :> 10),
                                splits |-> [paved |-> ("Avg Finish" :> 4)],
                                history |-> <<Row(40), Row(NA)>>])
                     ELSE None]
OldProfile == [y \in Years |-> IF y = TargetYear - 2 THEN PlainRecord(1) ELSE None]
PrevProfile ==
    [y \in Years |-> IF y = TargetYear - 1
                     THEN Some([stats |-> ("Races" :> 5) @@ ("Avg Finish" :> 40),
                                splits |-> [Dirt |-> ("Avg Finish" :> 2)]])
                     ELSE Some([stats |-> ("Races" :> 0)])]

Scenarios ==
    { [A |-> SeasonProfile, B |-> OldProfile, C |-> PrevProfile],
      [A |-> OldProfile, B |-> OldProfile, C |-> OldProfile],
      [A |-> PrevProfile, B |-> PrevProfile, C |-> SeasonProfile],
      [A |-> OldProfile, B |-> SeasonProfile, C |-> SeasonProfile] }

Init ==
    /\ drivers \in DriverLists
    /\ year = TargetYear
    /\ track_type \in RequestTrackTypes
    /\ num_simulations \in -1..MaxSims
    /\ stats \in Scenarios
    /\ Fresh
    /\ FreshProcess
    /\ DirectCall

\* a record whose season average is undefined
NaNProfile ==
    [y \in Years |-> IF y = TargetYear
                     THEN Some([stats |-> ("Races" :> 5) @@ ("Avg Finish" :> NaN) @@ ("Avg Start" :> 10)])
                     ELSE None]

InitNonFinite ==
    /\ drivers \in DriverLists
    /\ year = TargetYear
    /\ track_type = "Intermediate"
    /\ num_simulations \in 0..MaxSims
    /\ stats = [A |-> NaNProfile, B |-> SeasonProfile, C |-> OldProfile]
    /\ Fresh
    /\ FreshProcess
    /\ DirectCall

\* app.py, simulate_race: the same request is served a second time by the
\* same process; the new engine starts afresh, numpy's generator goes on
Reinvoke ==
    /\ pc = "done"
    /\ ~previous.called
    /\ previous' = [called |-> TRUE, outcome |-> outcome, results |-> aggregated]
    /\ pc' = "strengths"
    /\ k' = 1
    /\ strengths' = NewDict
    /\ lookups' = <<>>
    /\ results' = NewDict
    /\ sim' = 0
    /\ step' = 0
    /\ current_order' = <<>>
    /\ outcome' = "running"
    /\ aggregated' = <<>>
    /\ trace' = <<>>
    /\ metadata' = NoMetadata
    /\ UNCHANGED <<drivers, year, track_type, num_simulations, stats, rng, sport, status,
                   last_scores, last_noise>>

InitRepeat ==
    /\ drivers \in DriverLists
    /\ year = TargetYear
    /\ track_type = "Intermediate"
    /\ num_simulations \in 0..MaxSims
    /\ stats = [A |-> SeasonProfile, B |-> OldProfile, C |-> OldProfile]
    /\ Fresh
    /\ FreshProcess
    /\ DirectCall

----------------------------------------------------------------------------
(* One reordering on its own: _simulate_stage and the pit cycle of          *)
(* _simulate_single_race called on any lineup with any lookup               *)

\* ratings a lookup may hold: the floor, the floor plus one position bonus, 2.0
StageStrengths == {FloorStrength, FloorStrength + PosBonusUnit, 2 * Scale}
Grid == <<"A", "B", "C">>
StageFields == {SubSeq(Grid, 1, n) : n \in 0..Min(MaxDrivers, Len(Grid))}

InitStage ==
    /\ drivers \in StageFields
    /\ \E rating \in [1..Len(drivers) -> StageStrengths] : strengths = ZipDict(drivers, rating)
    /\ current_order \in Orderings(drivers)
    /\ step \in 1..LastStep
    /\ pc = "call"
    /\ year = TargetYear
    /\ track_type = "Intermediate"
    /\ num_simulations = 1
    /\ stats = [d \in Drivers |-> [y \in Years |-> None]]
    /\ k = Len(drivers) + 1
    /\ lookups = <<>>
    /\ results = NewDict
    /\ sim = 0
    /\ outcome = "running"
    /\ aggregated = <<>>
    /\ trace = <<>>
    /\ metadata = NoMetadata
    /\ last_scores = NewDict
    /\ last_noise = <<>>
    /\ FreshProcess
    /\ DirectCall

\* a pit cycle that lets the stronger competitor out of the pits first
PitCallByStrength ==
    /\ pc = "call"
    /\ step <= LastStep
    /\ IsPit(step)
    /\ \E pit_noise \in [1..Len(strengths.keys) -> PitDraws] :
         LET sc == ZipDict(current_order,
                           [i \in 1..Len(current_order) |->
                               (-(i - 1)) + pit_noise[i]
                               + DictGet(strengths, current_order[i], FloorStrength) \div Scale])
         IN  /\ last_noise' = pit_noise
             /\ last_scores' = sc
             /\ current_order' = sorted_reverse(sc.keys, KeyValues(sc))
    /\ step' = step + 1
    /\ rng' = rng + Len(strengths.keys)
    /\ pc' = "called"
    /\ UNCHANGED <<previous, sport, status, metadata, drivers, year, track_type, num_simulations,
                   stats, k, strengths, lookups, results, sim, outcome, aggregated, trace>>

\* lines 109-111, 117-119, with the locals of the call kept
PitCall ==
    /\ pc = "call"
    /\ step <= LastStep
    /\ IsPit(step)
    /\ \E pit_noise \in [1..Len(strengths.keys) -> PitDraws] :
         /\ last_noise' = pit_noise
         /\ last_scores' = pit_order_scores(current_order, pit_noise)
         /\ current_order' = pit_stops(current_order, pit_noise)
    /\ step' = step + 1
    /\ rng' = rng + Len(strengths.keys)
    /\ pc' = "called"
    /\ UNCHANGED <<previous, sport, status, metadata, drivers, year, track_type, num_simulations,
                   stats, k, strengths, lookups, results, sim, outcome, aggregated, trace>>

\* lines 72-91, with the locals of the call kept
StageCall ==
    /\ pc = "call"
    /\ step <= LastStep
    /\ ~IsPit(step)
    /\ \E draws \in [1..Len(current_order) -> GumbelDraws] :
         /\ last_noise' = draws
         /\ last_scores' = stage_scores(current_order, strengths, StageVariance[step], draws)
         /\ current_order' = _simulate_stage(current_order, strengths, StageVariance[step], draws)
    /\ step' = step + 1
    /\ rng' = rng + Len(current_order)
    /\ pc' = "called"
    /\ UNCHANGED <<previous, sport, status, metadata, drivers, year, track_type, num_simulations,
                   stats, k, strengths, lookups, results, sim, outcome, aggregated, trace>>

NextStage ==
    \/ StageCall
    \/ PitCall

SpecStage == InitStage /\ [][NextStage]_vars

Next ==
    \/ CalcStrength
    \/ StartLoop
    \/ StartRace
    \/ Stage
    \/ PitStops
    \/ Record
    \/ Return
    \/ Raise

Spec == Init /\ [][Next]_vars

SpecNonFinite == InitNonFinite /\ [][Next]_vars

----------------------------------------------------------------------------
(* app.py, simulate_race, lines 518-539 *)

Sports == {"nascar", "nba"}

InitApi ==
    /\ sport \in Sports
    /\ status = NoStatus
    /\ pc = "request"
    /\ drivers \in DriverLists
    /\ year = TargetYear
    /\ track_type = "Intermediate"
    /\ num_simulations \in 0..MaxSims
    /\ stats = [A |-> SeasonProfile, B |-> OldProfile, C |-> OldProfile]
    /\ k = 1
    /\ strengths = NewDict
    /\ lookups = <<>>
    /\ results = NewDict
    /\ sim = 0
    /\ step = 0
    /\ current_order = <<>>
    /\ outcome = "running"
    /\ aggregated = <<>>
    /\ trace = <<>>
    /\ metadata = NoMetadata
    /\ last_scores = NewDict
    /\ last_noise = <<>>
    /\ FreshProcess

\* lines 522-535: the HTTPException(400) of line 524 is raised inside the try
\* and is an Exception, so line 537 catches it and line 539 raises
\* HTTPException(500) in its place
Dispatch ==
    /\ pc = "request"
    /\ IF sport # "nascar"
       THEN /\ outcome' = "HTTPException"
            /\ status' = 500
            /\ pc' = "responded"
       ELSE /\ pc' = "strengths"
            /\ UNCHANGED <<outcome, status>>
    /\ UNCHANGED <<trace, rng, previous, metadata, last_scores, last_noise, sport, drivers, year,
                   track_type, num_simulations, stats, k, strengths, lookups, results, sim, step,
                   current_order, aggregated>>

\* lines 536-539: the results are returned (200), any exception becomes 500
Respond ==
    /\ pc = "done"
    /\ status = NoStatus
    /\ status' = IF outcome = "returned" THEN 200 ELSE 500
    /\ pc' = "responded"
    /\ UNCHANGED <<trace, rng, previous, metadata, last_scores, last_noise, sport, drivers, year,
                   track_type, num_simulations, stats, k, strengths, lookups, results, sim, step,
                   current_order, outcome, aggregated>>

NextApi ==
    \/ Dispatch
    \/ Next
    \/ Respond

SpecApi == InitApi /\ [][NextApi]_vars

NextRepeat ==
    \/ Next
    \/ Reinvoke

SpecRepeat == InitRepeat /\ [][NextRepeat]_vars

----------------------------------------------------------------------------
(* Properties *)

DriverSet == {drivers[i] : i \in 1..Len(drivers)}
Range(s) == {s[i] : i \in 1..Len(s)}
IsPermutationOf(order, set) == Len(order) = Cardinality(set) /\ Range(order) = set

\* C1: during a race, the lineup after every step (each stage re-ranking, each
\* pit perturbation, the final order) is a permutation of the input competitor
\* set: every competitor exactly once, none lost, none added.
C1_LineupIsPermutation ==
    pc = "race" => IsPermutationOf(current_order, DriverSet)

C1_Witness ==
    /\ pc = "race"
    /\ step > LastStep
    /\ Len(current_order) = 3
    /\ current_order # strengths.keys

\* C2: when run_monte_carlo returns for num_simulations >= 1, every
\* competitor's tally holds exactly num_simulations finishes, each between 1
\* and the number of competitors.
C2_TallyComplete ==
    (outcome = "returned" /\ num_simulations >= 1) =>
        /\ DOMAIN results.val = DriverSet
        /\ \A d \in DriverSet :
             /\ Len(results.val[d]) = num_simulations
             /\ \A i \in 1..Len(results.val[d]) :
                  results.val[d][i] \in 1..Cardinality(DriverSet)

C2_Witness ==
    /\ outcome = "returned"
    /\ num_simulations = 2
    /\ Cardinality(DriverSet) = 3
    /\ \E d \in DriverSet : results.val[d] = <<3, 1>>

\* C3: all or nothing: no statistics exist for the caller unless
\* run_monte_carlo returned, and returned statistics are computed, for every
\* competitor, from the tallies of all num_simulations runs.
C3_AllOrNothing ==
    /\ outcome # "returned" => aggregated = <<>>
    /\ (outcome = "returned" /\ aggregated # <<>>) =>
         /\ sim = num_simulations
         /\ {aggregated[i].driver : i \in 1..Len(aggregated)} = DriverSet
         /\ \A i \in 1..Len(aggregated) :
              LET finishes == results.val[aggregated[i].driver]
              IN  /\ Len(finishes) = num_simulations
                  /\ aggregated[i].best_finish = SeqMin(finishes)
                  /\ aggregated[i].worst_finish = SeqMax(finishes)
                  /\ aggregated[i].avg_finish = (SumSeq(finishes) * Scale) \div num_simulations

C3_Witness ==
    /\ outcome = "returned"
    /\ num_simulations = 2
    /\ Len(aggregated) >= 2
    /\ \E i \in 1..Len(aggregated) : aggregated[i].best_finish # aggregated[i].worst_finish

KnownTrackTypes == {"Road Course"} \cup GeneralizedTypes
UnknownTrack == track_type \notin KnownTrackTypes

\* C4: a non-empty competitor list with num_simulations < 1 is rejected with
\* an InvalidRequestError: no run is executed and no result is returned.
C4_NonPositiveCountRejected ==
    (drivers # <<>> /\ num_simulations < 1) =>
        /\ sim = 0
        /\ pc # "race"
        /\ aggregated = <<>>
        /\ pc = "done" => outcome = "InvalidRequestError"

\* C5 (as claimed): an unknown track_type with no fallback category is
\* rejected and no simulation run is executed.
C5_UnknownTrackRejected ==
    UnknownTrack =>
        /\ pc # "race"
        /\ sim = 0
        /\ outcome # "returned"

\* strength of a usable record whose track component is track
StrengthWithTrack(rec, track) ==
    (((4 * base_strength(rec) + 3 * recency_strength(rec) + 3 * track) \div 10)
        * qualifying_factor(rec)) \div 1000

\* C5 (amended): an unknown track_type is not rejected: the track component
\* of a strength is taken from the split with exactly that key when the record
\* has one and equals the base component otherwise, and for
\* num_simulations >= 1 the call runs every simulation and returns.
C5_UnknownTrackFallsBackToBase ==
    UnknownTrack =>
        /\ \A c \in 1..Len(lookups) :
             LET sd == get_entity_stats(stats, drivers[c], lookups[c][Len(lookups[c])])
                 splits == Get(sd.val, "splits", EmptyDict)
             IN  ~MissingSecond(sd) =>
                   strengths.val[drivers[c]] =
                     StrengthWithTrack(sd.val,
                        IF track_type \in DOMAIN splits
                        THEN FieldRatio(splits[track_type]["Avg Finish"], 1)
                        ELSE base_strength(sd.val))
        /\ (pc = "done" /\ num_simulations >= 1) =>
             /\ outcome = "returned"
             /\ sim = num_simulations

C5_Witness ==
    /\ UnknownTrack
    /\ outcome = "returned"
    /\ sim = 2
    /\ \E d \in DriverSet :
         /\ stats[d][year].some
         /\ "paved" \in DOMAIN Get(stats[d][year].val, "splits", EmptyDict)
    /\ \E d \in DriverSet :
         /\ stats[d][year - 1].some
         /\ track_type \in DOMAIN Get(stats[d][year - 1].val, "splits", EmptyDict)

\* C6: an empty competitor list with num_simulations >= 1 raises no error and
\* returns an empty result list.
C6_EmptyListEmptyResult ==
    (drivers = <<>> /\ num_simulations >= 1) =>
        /\ outcome \in {"running", "returned"}
        /\ pc = "done" => (outcome = "returned" /\ aggregated = <<>> /\ sim = num_simulations)

C6_Witness ==
    /\ drivers = <<>>
    /\ num_simulations = 2
    /\ pc = "done"
    /\ outcome = "returned"

\* a record that is absent or has zero races
NoStats(r) ==
    \/ ~r.some
    \/ "stats" \notin DOMAIN r.val
    \/ "Races" \notin DOMAIN r.val["stats"]
    \/ r.val["stats"]["Races"] = 0

\* C7: a call of calculate_driver_strength looks up target_year first, looks
\* up target_year - 1 only when that record is absent or has zero races, and
\* returns the floor 0.5 when that one is absent or has zero races too; no
\* earlier year is looked up, at most two lookups per call, no error.
C7_TwoLookupsThenFloor ==
    /\ outcome = "running"
    /\ \A c \in 1..Len(lookups) :
         LET d == drivers[c]
             yrs == lookups[c]
         IN  /\ Len(yrs) \in {1, 2}
             /\ yrs[1] = year
             /\ Len(yrs) = 2 <=> NoStats(stats[d][year])
             /\ Len(yrs) = 2 => yrs[2] = year - 1
             /\ (NoStats(stats[d][year]) /\ NoStats(stats[d][year - 1])) =>
                    strengths.val[d] = FloorStrength

C7_Witness ==
    /\ Len(lookups) = 1
    /\ lookups[1] = <<year, year - 1>>
    /\ NoStats(stats["A"][year - 1])
    /\ ~NoStats(stats["A"][year - 2])
    /\ strengths.val["A"] = FloorStrength

\* C8: every competitor named in the input list, also one without a record
\* in either year, is in the strength lookup, takes part in every run exactly
\* once and has exactly one entry in the returned results.
C8_NobodyExcluded ==
    \A i \in 1..Len(drivers) :
        LET d == drivers[i]
        IN  /\ k > i => d \in DOMAIN strengths.val
            /\ pc = "race" => Cardinality({j \in 1..Len(current_order) : current_order[j] = d}) = 1
            /\ outcome = "returned" =>
                 Cardinality({j \in 1..Len(aggregated) : aggregated[j].driver = d}) = 1

C8_Witness ==
    /\ outcome = "returned"
    /\ num_simulations = 2
    /\ Len(aggregated) = 3
    /\ \E d \in DriverSet :
         /\ NoStats(stats[d][year])
         /\ NoStats(stats[d][year - 1])
         /\ results.val[d] = <<1, 1>>

\* C9: the strength computed for a competitor is strictly greater than 0,
\* whatever record the lookup returns.
C9_StrengthPositive ==
    \A d \in DOMAIN strengths.val : strengths.val[d] > 0

FirstIndex(d) == CHOOSE i \in 1..Len(drivers) : drivers[i] = d /\ \A j \in 1..(i - 1) : drivers[j] # d

\* C10: the returned list is sorted by non-increasing win probability, and
\* entries with equal win probability are in the order of the competitors'
\* (first) positions in the input list.
C10_SortedTiesByInputPosition ==
    outcome = "returned" =>
        \A i \in 1..Len(aggregated) : \A j \in (i + 1)..Len(aggregated) :
            /\ aggregated[i].win_prob >= aggregated[j].win_prob
            /\ aggregated[i].win_prob = aggregated[j].win_prob =>
                 FirstIndex(aggregated[i].driver) < FirstIndex(aggregated[j].driver)

C10_Witness ==
    /\ outcome = "returned"
    /\ Len(aggregated) = 3
    /\ aggregated[1].win_prob > aggregated[2].win_prob
    /\ aggregated[2].win_prob = aggregated[3].win_prob
    /\ aggregated[2].driver = "C"
    /\ aggregated[3].driver = "A"

\* C11: for a non-empty competitor list and num_simulations >= 1, every run
\* records exactly one competitor at position 1, the win counts sum to
\* num_simulations and the win probabilities sum to 1.0 (up to the truncation
\* of one fixed-point unit per competitor).
C11_WinProbabilitiesSumToOne ==
    (outcome = "returned" /\ drivers # <<>> /\ num_simulations >= 1) =>
        /\ \A r \in 1..num_simulations :
             Cardinality({d \in DOMAIN results.val : results.val[d][r] = 1}) = 1
        /\ SumSeq([i \in 1..Len(aggregated) |->
                     CountEq(results.val[aggregated[i].driver], 1)]) = num_simulations
        /\ \A i \in 1..Len(aggregated) :
             aggregated[i].win_prob =
                (CountEq(results.val[aggregated[i].driver], 1) * ProbScale) \div num_simulations
        /\ LET total == SumSeq([i \in 1..Len(aggregated) |-> aggregated[i].win_prob])
           IN  total <= ProbScale /\ ProbScale - total < Len(aggregated)

C11_Witness ==
    /\ outcome = "returned"
    /\ num_simulations = 2
    /\ Len(aggregated) = 3
    /\ aggregated[1].win_prob = aggregated[2].win_prob
    /\ aggregated[3].win_prob = 0

\* C13: calculate_driver_strength draws nothing from the random generator,
\* and a second call for the same competitor, year and track type against the
\* same lookup looks up the same years and returns the same strength.
C13_StrengthDeterministic ==
    [][(pc = "strengths" /\ k' = k + 1) =>
          /\ rng' = rng
          /\ drivers[k] \in DOMAIN strengths.val =>
                strengths'.val[drivers[k]] = strengths.val[drivers[k]]
          /\ \A c \in 1..(k - 1) : drivers[c] = drivers[k] => lookups'[k] = lookups[c]]_vars

C13_Witness ==
    /\ pc = "strengths"
    /\ k = 3
    /\ drivers[1] = drivers[2]
    /\ lookups = <<<<year>>, <<year>>>>
    /\ rng = 0

\* C14: a list holding a single competitor and num_simulations >= 1 give one
\* entry with win probability 1.0, average finish 1.0, best and worst finish 1.
C14_SingleCompetitor ==
    (Len(drivers) = 1 /\ num_simulations >= 1 /\ pc = "done") =>
        /\ outcome = "returned"
        /\ Len(aggregated) = 1
        /\ aggregated[1].driver = drivers[1]
        /\ aggregated[1].win_prob = ProbScale
        /\ aggregated[1].avg_finish = Scale
        /\ aggregated[1].best_finish = 1
        /\ aggregated[1].worst_finish = 1

C14_Witness ==
    /\ Len(drivers) = 1
    /\ num_simulations = 2
    /\ outcome = "returned"
    /\ Len(aggregated) = 1

\* the reorderings of a race: kind and noise scale in tenths
RaceSequence ==
    << <<"stage", 10>>, <<"stage", 6>>, <<"pit", 20>>,
       <<"stage", 6>>, <<"pit", 20>>, <<"stage", 5>> >>

C18_LookupsBeforeRuns ==
    /\ [](pc # "strengths" => Len(lookups) = Len(drivers))
    /\ [][pc # "strengths" => (lookups' = lookups /\ strengths' = strengths)]_vars

C18_Witness ==
    /\ pc = "race"
    /\ sim = 1
    /\ step = 4
    /\ Len(lookups) = 3
    /\ \E c \in 1..Len(lookups) : Len(lookups[c]) = 2

Permuted(f, p) == [j \in 1..Len(f) |-> f[p[j]]]

\* C19: the statistics of a competitor depend only on the multiset of the
\* recorded finishes: the finishes in any other order, or cut into two partial
\* tallies that are merged in the other order, give the same statistics.
C19_OrderIndependentStatistics ==
    outcome = "returned" =>
        \A i \in 1..Len(aggregated) :
            LET d == aggregated[i].driver
                f == results.val[d]
            IN  /\ \A p \in Permutations(1..Len(f)) : Agg(d, Permuted(f, p)) = aggregated[i]
                /\ \A cut \in 0..Len(f) :
                      Agg(d, SubSeq(f, cut + 1, Len(f)) \o SubSeq(f, 1, cut)) = aggregated[i]

C19_Witness ==
    /\ outcome = "returned"
    /\ \E d \in DOMAIN results.val : results.val[d] = <<2, 1>>
    /\ \E d \in DOMAIN results.val : results.val[d] = <<1, 3>>

\* the track component read from the split with this key
SplitTrack(rec, key) ==
    FieldRatio(Get(rec["splits"][key], "Avg Finish",
                   Get(rec["stats"], "Avg Finish", FieldBaseline)), 1)

GeneralizedCategory(tt) == IF tt = "Road Course" THEN "road" ELSE "paved"

\* exact split, else generalized category split, else base
ClaimedTrack(rec, tt) ==
    LET splits == Get(rec, "splits", EmptyDict)
    IN  IF tt \in DOMAIN splits THEN SplitTrack(rec, tt)
        ELSE IF tt \in KnownTrackTypes /\ GeneralizedCategory(tt) \in DOMAIN splits
             THEN SplitTrack(rec, GeneralizedCategory(tt))
             ELSE base_strength(rec)

\* 'Road Course' reads 'road' only; every other type as claimed
AmendedTrack(rec, tt) ==
    LET splits == Get(rec, "splits", EmptyDict)
    IN  IF tt = "Road Course"
        THEN IF "road" \in DOMAIN splits THEN SplitTrack(rec, "road") ELSE base_strength(rec)
        ELSE ClaimedTrack(rec, tt)

SettledRecord(c) == get_entity_stats(stats, drivers[c], lookups[c][Len(lookups[c])])

\* C20 (as claimed): for every track_type the track component comes from the
\* split keyed exactly track_type when the record has one, otherwise from the
\* generalized category split (paved or road) when the record has one,
\* otherwise it is the base component.
C20_ExactThenGeneralizedThenBase ==
    \A c \in 1..Len(lookups) :
        ~MissingSecond(SettledRecord(c)) =>
            strengths.val[drivers[c]] =
                StrengthWithTrack(SettledRecord(c).val,
                                  ClaimedTrack(SettledRecord(c).val, track_type))

\* C20 (amended): as claimed for every track_type but 'Road Course'; for
\* 'Road Course' the track component comes from the 'road' split when the
\* record has one and is the base component otherwise, a split keyed
\* 'Road Course' being never read.
C20_ExactExceptRoadCourse ==
    \A c \in 1..Len(lookups) :
        ~MissingSecond(SettledRecord(c)) =>
            strengths.val[drivers[c]] =
                StrengthWithTrack(SettledRecord(c).val,
                                  AmendedTrack(SettledRecord(c).val, track_type))

C20_Witness ==
    /\ Len(lookups) = 1
    /\ track_type = "Road Course"
    /\ ~MissingSecond(SettledRecord(1))
    /\ {"Road Course", "road"} \subseteq DOMAIN SettledRecord(1).val["splits"]
    /\ strengths.val["A"] > 0
    /\ strengths.val["A"] #
          StrengthWithTrack(SettledRecord(1).val, ClaimedTrack(SettledRecord(1).val, track_type))

\* C12: with fixed statistics (and whatever seed the process started with),
\* a second invocation of run_monte_carlo with the same arguments returns the
\* result of the first.
C12_RepeatableResults ==
    (previous.called /\ pc = "done") =>
        /\ outcome = previous.outcome
        /\ aggregated = previous.results

\* C15: a non-finite strength never flows into returned statistics: a
\* request whose lookup yields one is retried with the floor or fails.
C15_NonFiniteNeverReturned ==
    outcome = "returned" =>
        \A d \in DOMAIN strengths.val : strengths.val[d] # NaN

\* C17: a simulation run writes no state that another run reads: while a run
\* is in progress the strength lookup, the tallies and the random source stay
\* as they are.
C17_RunsWriteNoSharedState ==
    [][(pc = "race" /\ pc' = "race") =>
          /\ strengths' = strengths
          /\ results' = results
          /\ rng' = rng]_vars

\* strength of a usable record from a recency and a track component
StrengthFrom(rec, recency, track) ==
    (((4 * base_strength(rec) + 3 * recency + 3 * track) \div 10)
        * qualifying_factor(rec)) \div 1000

\* rows of the history that count: among the first five, with a finish
UsableRows(rec) ==
    LET history == Get(rec, "history", <<>>)
    IN  {i \in 1..Len(history) : i <= RecentWindow /\ history[i]["Finish"] # NA}

\* FieldBaseline over the mean finish of the usable rows, or the base component
ExpectedRecency(rec) ==
    LET history == Get(rec, "history", <<>>)
        counted == [i \in 1..Len(history) |->
                       IF i \in UsableRows(rec) THEN history[i]["Finish"] ELSE 0]
    IN  IF UsableRows(rec) = {}
        THEN base_strength(rec)
        ELSE FieldRatio(SumSeq(counted), Cardinality(UsableRows(rec)))

\* C21: the recency component is computed from the mean finish of the
\* usable rows among the first five of the history, rows beyond the fifth
\* having no influence, and equals the base component when there is no such row.
C21_RecencyFromFirstFive ==
    \A c \in 1..Len(lookups) :
        ~MissingSecond(SettledRecord(c)) =>
            strengths.val[drivers[c]] =
                StrengthFrom(SettledRecord(c).val, ExpectedRecency(SettledRecord(c).val),
                             track_strength(SettledRecord(c).val, track_type))

\* a rated record whose sixth row has a finish other than its first rows
C21_Witness ==
    /\ Len(lookups) = 1
    /\ ~MissingSecond(SettledRecord(1))
    /\ LET history == Get(SettledRecord(1).val, "history", <<>>)
       IN  /\ Len(history) > RecentWindow
           /\ history[1]["Finish"] # NA
           /\ history[Len(history)]["Finish"] \notin {NA, history[1]["Finish"]}
           /\ ExpectedRecency(SettledRecord(1).val) # base_strength(SettledRecord(1).val)
    /\ "A" \in DOMAIN strengths.val

PosIn(lineup, d) == CHOOSE i \in 1..Len(lineup) : lineup[i] = d

\* out orders the competitors of in by descending value, equal values by
\* their place in in
StableDesc(in, val, out) ==
    /\ Len(out) = Len(in)
    /\ Range(out) = Range(in)
    /\ \A i, j \in 1..Len(out) :
         i < j => \/ val[out[i]] > val[out[j]]
                  \/ /\ val[out[i]] = val[out[j]]
                     /\ PosIn(in, out[i]) < PosIn(in, out[j])

Called == pc = "called"
StageCalled == Called /\ ~IsPit(step - 1)
PitCalled == Called /\ IsPit(step - 1)

\* C22: a stage re-ranking and a pit perturbation order the competitors by
\* descending score, competitors with equal scores keeping their relative
\* order of the input lineup; the output is the only lineup that does.
C22_StableDescending ==
    Called =>
        /\ StableDesc(last_scores.keys, last_scores.val, current_order)
        /\ \A other \in Orderings(last_scores.keys) :
             StableDesc(last_scores.keys, last_scores.val, other) => other = current_order

\* two competitors scored the same while a third changed place
C22_Witness ==
    /\ Called
    /\ Len(current_order) = 3
    /\ current_order # last_scores.keys
    /\ \E i, j \in 1..3 :
         /\ i < j
         /\ last_scores.val[last_scores.keys[i]] = last_scores.val[last_scores.keys[j]]

\* the part of a score that is neither strength nor noise
Bonus(i) ==
    last_scores.val[last_scores.keys[i]]
        - DictGet(strengths, last_scores.keys[i], FloorStrength)
        - StageVariance[step - 1] * last_noise[i]

SameRatingAndDraw(i, j) ==
    /\ strengths.val[last_scores.keys[i]] = strengths.val[last_scores.keys[j]]
    /\ last_noise[i] = last_noise[j]

\* C23: in a stage re-ranking the position bonus is positive and strictly
\* decreases from the front to the back, so of two competitors with equal
\* strength and equal noise the one ahead stays ahead, and with equal
\* strengths and equal noise for all the lineup comes back unchanged.
C23_FrontRunnersStayAhead ==
    StageCalled =>
        LET in == last_scores.keys
            n == Len(in)
        IN  /\ \A i \in 1..n : Bonus(i) > 0
            /\ \A i, j \in 1..n : i < j => Bonus(i) > Bonus(j)
            /\ \A i, j \in 1..n :
                 (i < j /\ SameRatingAndDraw(i, j)) =>
                     PosIn(current_order, in[i]) < PosIn(current_order, in[j])
            /\ (\A i, j \in 1..n : SameRatingAndDraw(i, j)) => current_order = in

\* two competitors with one rating and one non-zero draw, overtaken by a third
C23_Witness ==
    /\ StageCalled
    /\ Len(current_order) = 3
    /\ current_order # last_scores.keys
    /\ \E i, j \in 1..3 : i < j /\ SameRatingAndDraw(i, j) /\ last_noise[i] # 0

\* score of a pit cycle from the place in the lineup and the jitter alone
PlaceAndJitter(in) == [d \in Range(in) |-> (-(PosIn(in, d) - 1)) + last_noise[PosIn(in, d)]]

\* C24: the lineup a pit perturbation returns is a function of the input
\* lineup and the jitter draws only, whatever the strength lookup holds, and
\* with all-zero jitter it is the input lineup.
C24_PitIgnoresStrength ==
    PitCalled =>
        /\ StableDesc(last_scores.keys, PlaceAndJitter(last_scores.keys), current_order)
        /\ (\A i \in 1..Len(last_noise) : last_noise[i] = 0) => current_order = last_scores.keys

\* the weakest competitor leaves the pits ahead of the strongest
C24_Witness ==
    /\ PitCalled
    /\ Len(current_order) = 3
    /\ current_order # last_scores.keys
    /\ \E i, j \in 1..3 :
         /\ i < j
         /\ strengths.val[current_order[i]] = FloorStrength
         /\ strengths.val[current_order[j]] = 2 * Scale

\* C25: no step of a simulation run, nor the aggregation, modifies the
\* strength lookup: once the runs begin it holds the same values until
\* run_monte_carlo has returned.
C25_StrengthsReadOnly ==
    [][(pc \in {"loop", "race"}) => (strengths' = strengths)]_vars

C25_Witness ==
    /\ outcome = "returned"
    /\ sim = num_simulations
    /\ sim >= 2
    /\ Len(strengths.keys) >= 2
    /\ \E d \in DOMAIN results.val : results.val[d][1] # results.val[d][2]

\* every tally grows by exactly one finish, or none changes
OneFinishEach ==
    \/ results' = results
    \/ /\ results'.keys = results.keys
       /\ \A d \in DOMAIN results.val :
            /\ Len(results'.val[d]) = Len(results.val[d]) + 1
            /\ SubSeq(results'.val[d], 1, Len(results.val[d])) = results.val[d]

RunStartsFromLookup == (pc = "loop" /\ pc' = "race") => current_order' = strengths.keys

StagesOf(t) == Cardinality({i \in 1..Len(t) : t[i][1] = "stage"})
PitsOf(t) == Cardinality({i \in 1..Len(t) : t[i][1] = "pit"})

\* steps run_monte_carlo still has to take: the ratings left, the step out of
\* the rating loop, StartRace, the reorderings and Record of every run left,
\* and the aggregation
StepsLeft ==
    LET run == LastStep + 2
    IN  CASE pc = "strengths" -> (Len(drivers) - k + 1) + 1 + num_simulations * run + 1
          [] pc = "loop" -> (num_simulations - sim) * run + 1
          [] pc = "race" -> (num_simulations - sim - 1) * run + (LastStep - step + 1) + 2
          [] OTHER -> 0

\* C27: for num_simulations >= 1, run_monte_carlo terminates (before it is
\* done a step is always possible, a reordering whenever one is left in the
\* race, and every step brings it one step nearer), having
\* executed exactly num_simulations runs, each of exactly 4 stage re-rankings
\* and 2 pit perturbations, each of which draws once for every competitor.
C27_TerminatesAfterExactRuns ==
    /\ []((num_simulations >= 1 /\ pc # "done") =>
            \/ ENABLED (CalcStrength \/ StartLoop \/ StartRace \/ Record \/ Return)
            \/ (pc = "race" /\ step <= LastStep))
    /\ [][(num_simulations >= 1) => (StepsLeft' = StepsLeft - 1 /\ StepsLeft' >= 0)]_vars
    /\ []((pc = "done" /\ num_simulations >= 1) =>
            /\ outcome = "returned"
            /\ sim = num_simulations
            /\ rng = num_simulations * (4 + 2) * Len(strengths.keys))
    /\ []((pc = "race" /\ step > LastStep) =>
            /\ StagesOf(trace) = 4
            /\ PitsOf(trace) = 2
            /\ rng = (sim + 1) * (4 + 2) * Len(strengths.keys))
    /\ [][(pc = "race" /\ pc' = "race") => (rng' = rng + Len(strengths.keys))]_vars

C27_Witness ==
    /\ pc = "done"
    /\ outcome = "returned"
    /\ num_simulations >= 2
    /\ sim = num_simulations
    /\ Len(strengths.keys) >= 2
    /\ rng > 0

\* C28: the driver_count of the metadata equals the number of entries of the
\* results list and the field size of the runs, also when the competitor
\* list names one competitor more than once.
C28_DriverCountMatches ==
    outcome = "returned" =>
        /\ metadata.driver_count = Len(aggregated)
        /\ metadata.driver_count = Len(strengths.keys)

\* C29: with an empty competitor list run_monte_carlo raises nothing and
\* returns an empty result list whatever num_simulations is, also below 1.
C29_EmptyListAlwaysReturns ==
    drivers = <<>> =>
        /\ outcome # "ValueError"
        /\ pc = "done" =>
             /\ outcome = "returned"
             /\ aggregated = <<>>
             /\ metadata.driver_count = 0
             /\ metadata.simulations = num_simulations
             /\ sim = Max(num_simulations, 0)

C29_Witness ==
    /\ drivers = <<>>
    /\ num_simulations < 1
    /\ pc = "done"
    /\ outcome = "returned"
    /\ aggregated = <<>>

\* C30: a simulate request for a sport other than 'nascar' is answered with
\* status 400 and runs no simulation; status 500 answers only failures of
\* the simulation itself.
C30_OtherSportIs400 ==
    status # NoStatus =>
        /\ sport # "nascar" => (status = 400 /\ lookups = <<>> /\ sim = 0)
        /\ status = 500 => (sport = "nascar" /\ outcome = "ValueError")

====
